---- MODULE Spec2Model ----
(***************************************************************************)
(* A model of the tutoring-chat conversation service: the thread record   *)
(* codec (_save_thread / get_thread), the orchestrator operations         *)
(* (start_conversation, add_message, handle_student_action,               *)
(* regenerate_tutor_response) and the rule-based response generator.      *)
(*                                                                         *)
(* Modelling conventions                                                   *)
(*  - Optional values (Python None) are sequences of length <= 1.          *)
(*  - A text (str that the code formats or searches) is a sequence of      *)
(*    fragments; "a in b" is "some fragment of b equals a".                *)
(*  - A float of a feedback map is an integer number of hundredths; a dict *)
(*    Dict[str, float] is a set of <<key, value>> pairs.                   *)
(*  - A datetime is [s, us, tz]; its ISO-8601 text is [date, frac, off],   *)
(*    where the fraction is omitted when the microseconds are 0, as        *)
(*    datetime.isoformat does.                                             *)
(*  - A JSON text is [text, val]: "json" around the encoded value, or a    *)
(*    malformed text that json.loads rejects.                              *)
(*  - Thread ids (uuid4 strings) are the naturals 1, 2, ...; 0 is an id    *)
(*    that was never generated.                                            *)
(*                                                                         *)
(* Specifications                                                          *)
(*  - Spec: calls of the service one after the other on an empty store.    *)
(*  - SpecCodec: _save_thread / get_thread on drawn threads and records.   *)
(*  - SpecConc: calls of two workers interleaved between store calls.      *)
(*  - SpecApi: the service behind its endpoints, with request validation,  *)
(*    records of unknown origin in the store, and store writes that fail.  *)
(***************************************************************************)
EXTENDS Integers, Sequences, FiniteSets, TLC

\* ------------------------------------------------------------------ bounds
MaxClock == 7
MaxThreads == 2
RTMaxLen == 3
MaxConcClock == 4

VARIABLES store, clock, nextId, dspy_configured, pc, loc, instance, reachable

vars == <<store, clock, nextId, dspy_configured, pc, loc, instance, reachable>>

\* ----------------------------------------------------------- small helpers
None == <<>>

Some(x) == <<x>>

Last(s) == s[Len(s)]

Front(s) == SubSeq(s, 1, Len(s) - 1)

RECURSIVE SeqsUpTo(_, _)
SeqsUpTo(S, n) ==
  IF n = 0 THEN {<<>>}
  ELSE LET shorter == SeqsUpTo(S, n - 1)
       IN  shorter \cup {Append(q, x) : q \in {t \in shorter : Len(t) = n - 1}, x \in S}

\* ------------------------------------------------------------------- time
\* datetime.now(timezone.utc): the clock counts half seconds.
Now == [s |-> clock \div 2, us |-> (clock % 2) * 500000, tz |-> "+00:00"]

NowAt(c) == [s |-> c \div 2, us |-> (c % 2) * 500000, tz |-> "+00:00"]

\* Faulty variant: the text is cut to whole seconds.
isoformat_nofrac(dt) == [date |-> dt.s, frac |-> <<>>, off |-> dt.tz]

\* datetime.isoformat(): "YYYY-MM-DDTHH:MM:SS[.ffffff][+HH:MM]"
isoformat(dt) ==
  [date |-> dt.s, frac |-> IF dt.us = 0 THEN <<>> ELSE <<dt.us>>, off |-> dt.tz]

\* A text that datetime.fromisoformat (and pydantic's datetime parser) rejects.
BadIso == [date |-> -1, frac |-> <<>>, off |-> "not-a-date"]

IsIso(t) == t.date >= 0

\* datetime.fromisoformat(text), defined when IsIso(text)
fromisoformat(t) ==
  [s |-> t.date, us |-> IF t.frac = <<>> THEN 0 ELSE t.frac[1], tz |-> t.off]

\* ------------------------------------------------------------------- JSON
json_dumps(v) == [text |-> "json", val |-> v]

MalformedJson == [text |-> "malformed", val |-> <<>>]

IsJson(t) == t.text = "json"

\* json.loads(text), defined when IsJson(text)
json_loads(t) == t.val

\* --------------------------------------------------------------- messages
\* JSON null / Python None in a field mapping.
Null == "null"

Actions == {"question", "answer", "chat", "regenerate"}

\* StudentMessage(conversation_id, content, action, timestamp)
StudentMessage(cid, content, action, ts) ==
  [kind |-> "student", conversation_id |-> cid, content |-> content,
   action |-> action, timestamp |-> ts]

\* TutorMessage(conversation_id, content, feedback, timestamp)
TutorMessage(cid, content, feedback, ts) ==
  [kind |-> "tutor", conversation_id |-> cid, content |-> content,
   feedback |-> feedback, timestamp |-> ts]

IsStudent(m) == m.kind = "student"

IsTutor(m) == m.kind = "tutor"

\* message.model_dump(): the field mapping of a message, each variant with
\* its own field names (the Python class is not part of it).
model_dump(m) ==
  IF IsStudent(m)
  THEN [conversation_id |-> m.conversation_id, content |-> m.content,
        action |-> m.action, timestamp |-> m.timestamp]
  ELSE [conversation_id |-> m.conversation_id, content |-> m.content,
        feedback |-> m.feedback, timestamp |-> m.timestamp]

\* dict.get(key): the value, or None when the key is missing.
DictGetAction(d) == IF "action" \in DOMAIN d THEN d.action ELSE Null

\* The timestamp of a decoded message: parsed from the mapping, or the
\* default factory's now when the mapping has none.
ParsedTimestamp(d, now) ==
  IF "timestamp" \in DOMAIN d THEN fromisoformat(d.timestamp) ELSE now

TimestampOk(d) == "timestamp" \in DOMAIN d => IsIso(d.timestamp)

\* Faulty variant: the action is not validated against the Literal.
StudentFromDict_unchecked(d, now) ==
  IF /\ {"conversation_id", "content", "action"} \subseteq DOMAIN d
     /\ TimestampOk(d)
  THEN Some(StudentMessage(d.conversation_id, d.content, d.action,
                           ParsedTimestamp(d, now)))
  ELSE None

\* StudentMessage(**d): None stands for pydantic's ValidationError.
StudentFromDict(d, now) ==
  IF /\ {"conversation_id", "content", "action"} \subseteq DOMAIN d
     /\ d.action \in Actions
     /\ TimestampOk(d)
  THEN Some(StudentMessage(d.conversation_id, d.content, d.action,
                           ParsedTimestamp(d, now)))
  ELSE None

\* TutorMessage(**d): feedback defaults to the empty map; extra keys are ignored.
TutorFromDict(d, now) ==
  IF /\ {"conversation_id", "content"} \subseteq DOMAIN d
     /\ TimestampOk(d)
  THEN Some(TutorMessage(d.conversation_id, d.content,
                         IF "feedback" \in DOMAIN d THEN d.feedback ELSE {},
                         ParsedTimestamp(d, now)))
  ELSE None

\* Faulty variant: the variant is decided by the presence of a feedback key.
TypedMessage_byfeedback(d, now) ==
  IF "feedback" \in DOMAIN d THEN TutorFromDict(d, now) ELSE StudentFromDict(d, now)

\* The discriminant of get_thread: a non-null action decodes as a student
\* message, anything else as a tutor message.
TypedMessage(d, now) ==
  IF DictGetAction(d) # Null THEN StudentFromDict(d, now) ELSE TutorFromDict(d, now)

\* ---------------------------------------------------------------- threads
\* ConversationThread(id, student_id, usmos, content_id, messages,
\*                    created_at, updated_at)
ConversationThread(id, sid, usmos, cid, msgs, created, updated) ==
  [id |-> id, student_id |-> sid, usmos |-> usmos, content_id |-> cid,
   messages |-> msgs, created_at |-> created, updated_at |-> updated]

\* The message dictionaries _save_thread encodes: model_dump with the
\* timestamp rewritten to its ISO text.
MessageDict(m) == [model_dump(m) EXCEPT !.timestamp = isoformat(m.timestamp)]

\* Faulty variant: the record's created_at is the time of the save.
ThreadRedis_touch(t) ==
  [id |-> t.id,
   student_id |-> t.student_id,
   usmos_json |-> json_dumps(t.usmos),
   content_ids |-> json_dumps(<<t.content_id>>),
   messages |-> json_dumps([i \in 1..Len(t.messages) |-> MessageDict(t.messages[i])]),
   created_at |-> isoformat(t.updated_at),
   updated_at |-> isoformat(t.updated_at),
   is_active |-> TRUE]

\* ConversationThreadRedis(...) as built by _save_thread.
ThreadRedis(t) ==
  [id |-> t.id,
   student_id |-> t.student_id,
   usmos_json |-> json_dumps(t.usmos),
   content_ids |-> json_dumps(<<t.content_id>>),
   messages |-> json_dumps([i \in 1..Len(t.messages) |-> MessageDict(t.messages[i])]),
   created_at |-> isoformat(t.created_at),
   updated_at |-> isoformat(t.updated_at),
   is_active |-> TRUE]

\* thread_redis.save(): a full replace of the record keyed by its id.
SaveRecord(st, rec) == [st EXCEPT ![rec.id] = Some(rec)]

\* Faulty variant: a save that would not lengthen the stored log is not applied.
save_thread_guarded(st, t) ==
  IF /\ st[t.id] # None
     /\ IsJson(st[t.id][1].messages)
     /\ Len(json_loads(st[t.id][1].messages)) >= Len(t.messages)
  THEN st
  ELSE SaveRecord(st, ThreadRedis(t))

\* _save_thread(thread) on store st
save_thread(st, t) == SaveRecord(st, ThreadRedis(t))

\* The decoding half of get_thread for a record that was found; None stands
\* for any exception of the try block.
DecodeRecord(rec, now) ==
  IF ~ (/\ IsJson(rec.messages)
        /\ IsJson(rec.content_ids)
        /\ IsJson(rec.usmos_json)
        /\ IsIso(rec.created_at)
        /\ IsIso(rec.updated_at))
  THEN None
  ELSE LET dicts == json_loads(rec.messages)
           typed == [i \in 1..Len(dicts) |-> TypedMessage(dicts[i], now)]
           content_ids == json_loads(rec.content_ids)
       IN  IF \/ \E i \in 1..Len(dicts) : typed[i] = None
              \/ content_ids = <<>>
           THEN None
           ELSE Some(ConversationThread(
                       rec.id, rec.student_id, json_loads(rec.usmos_json),
                       content_ids[1],
                       [i \in 1..Len(dicts) |-> typed[i][1]],
                       fromisoformat(rec.created_at),
                       fromisoformat(rec.updated_at)))

\* Faulty variant: an absent record yields a new empty thread.
get_thread_or_new(st, tid, now) ==
  IF st[tid] = None
  THEN Some(ConversationThread(tid, "", <<>>, "content123", <<>>, now, now))
  ELSE DecodeRecord(st[tid][1], now)

\* get_thread(thread_id) on store st: the thread, or None (absent record or
\* any exception while decoding).
get_thread(st, tid, now) ==
  IF st[tid] = None THEN None ELSE DecodeRecord(st[tid][1], now)

\* ---------------------------------------------------------------- content
\* ContentResponse(content_id, usmos, problem, answer, explanation)
Content(cid, usmos, problem, answer, explanation) ==
  [content_id |-> cid, usmos |-> usmos, problem |-> problem,
   answer |-> answer, explanation |-> explanation]

Content123 ==
  Content("content123", <<"MATH.ALG.1">>, "Solve for x: x + 5 = 10", "x = 5",
          "Subtract 5 from both sides to isolate x.")

Content456 ==
  Content("content456", <<"MATH.ALG.2">>,
          "Solve the system of equations: x + y = 10, x - y = 4", "x = 7, y = 3",
          "Add the equations to eliminate y and solve for x, then substitute to find y.")

\* (the explanation's superscripts are written ^2)
Content789 ==
  Content("content789", <<"SCIENCE.PHYS.1">>,
          "A ball is thrown upward with an initial velocity of 20 m/s. How high will it go?",
          "20.4 meters", "Use the formula h = v^2/(2g) where g = 9.8 m/s^2.")

\* C3Service.get_mock_content: the table keyed by tag.
MockDataTags == {"MATH.ALG.1", "MATH.ALG.2", "SCIENCE.PHYS.1"}

MockData(tag) ==
  CASE tag = "MATH.ALG.1" -> Content123
    [] tag = "MATH.ALG.2" -> Content456
    [] tag = "SCIENCE.PHYS.1" -> Content789

\* Faulty variant: a tag the table does not know yields a placeholder item.
RECURSIVE get_mock_content_placeholder(_)
get_mock_content_placeholder(usmos) ==
  IF usmos = <<>> THEN <<>>
  ELSE (IF Head(usmos) \in MockDataTags THEN <<MockData(Head(usmos))>>
        ELSE <<Content("content000", <<Head(usmos)>>, "", "", "")>>)
       \o get_mock_content_placeholder(Tail(usmos))

\* The contents of the requested tags that the table knows, in request order.
RECURSIVE get_mock_content(_)
get_mock_content(usmos) ==
  IF usmos = <<>> THEN <<>>
  ELSE (IF Head(usmos) \in MockDataTags THEN <<MockData(Head(usmos))>> ELSE <<>>)
       \o get_mock_content(Tail(usmos))

\* Faulty variant: the id-keyed table lacks the last item.
get_content_short(content_id) ==
  CASE content_id = "content123" -> Some(Content123)
    [] content_id = "content456" -> Some(Content456)
    [] OTHER -> None

\* Faulty variant: an id the table does not know yields the first item.
get_content_default(content_id) ==
  CASE content_id = "content456" -> Some(Content456)
    [] content_id = "content789" -> Some(Content789)
    [] OTHER -> Some(Content123)

\* ConversationService.get_content: the table keyed by content id.
get_content(content_id) ==
  CASE content_id = "content123" -> Some(Content123)
    [] content_id = "content456" -> Some(Content456)
    [] content_id = "content789" -> Some(Content789)
    [] OTHER -> None

\* ------------------------------------------------------- response generator
\* str.lower() on the fragments the model uses.
Lower(frag) ==
  CASE frag = "X = 5" -> "x = 5"
    [] frag = "I think " -> "i think "
    [] frag = "How do I solve this equation?" -> "how do i solve this equation?"
    [] OTHER -> frag

\* a in text
Contains(text, a) == \E i \in 1..Len(text) : text[i] = a

LowerText(text) == [i \in 1..Len(text) |-> Lower(text[i])]

\* TutorService._generate_feedback: fixed placeholder scores.
generate_feedback == {<<"clarity", 90>>, <<"helpfulness", 85>>, <<"engagement", 80>>}

\* Faulty variant: the message at the tail is not looked at.
RECURSIVE LastStudent_skiptail(_)
LastStudent_skiptail(msgs) ==
  IF msgs = <<>> \/ Front(msgs) = <<>> THEN None
  ELSE IF IsStudent(Last(Front(msgs))) THEN Some(Last(Front(msgs)))
  ELSE LastStudent_skiptail(Front(msgs))

\* The last StudentMessage of a log (None when there is none).
RECURSIVE LastStudent(_)
LastStudent(msgs) ==
  IF msgs = <<>> THEN None
  ELSE IF IsStudent(Last(msgs)) THEN Some(Last(msgs))
  ELSE LastStudent(Front(msgs))

\* Faulty variant: the reply to a question restates the problem only.
RuleResponse_noanswer(last, content) ==
  IF last.action = "question"
  THEN <<"That's a good question about '", content.problem, "'. Does that make sense?">>
  ELSE <<"I understand your comment. Let's continue discussing this problem: ",
         content.problem>>

\* The rule-based fallback of generate_response.
RuleResponse(last, content) ==
  CASE last.action = "question" ->
         <<"That's a good question about '", content.problem,
           "'. The answer is '", content.answer, "'. Does that make sense?">>
    [] last.action = "answer" ->
         IF Contains(LowerText(last.content), Lower(content.answer))
         THEN <<"That's correct! Well done.">>
         ELSE <<"Not quite. The correct answer is '", content.answer,
                "'. Let me explain: ",
                IF content.explanation = "" THEN "Think about it carefully."
                ELSE content.explanation>>
    [] last.action = "chat" ->
         <<"I understand your comment. Let's continue discussing this problem: ",
           content.problem>>
    [] OTHER ->
         <<"Let me try to explain this differently. The problem is '",
           content.problem, "' and the answer is '", content.answer, "'. ",
           content.explanation>>

\* What _generate_dspy_response can return: the model's text, or the text of
\* its except branch.
DspyResponses(content) ==
  {<<"Try isolating the variable first.">>,
   <<"I understand your question about ", content.problem,
     ". The answer is ", content.answer, ".">>}

\* The texts generate_response can produce for a thread and its content.
ResponseTexts(thread, content, configured) ==
  LET last == LastStudent(thread.messages)
  IN  IF last = None
      THEN {<<"Let's discuss this problem: ", content.problem,
              ". How would you approach solving it?">>}
      ELSE IF configured THEN DspyResponses(content)
      ELSE {RuleResponse(last[1], content)}

\* Faulty variant: the reply carries the id of the first thread.
generate_response_first(thread, content, text, now) ==
  TutorMessage(1, text,
               IF LastStudent(thread.messages) = None THEN {} ELSE generate_feedback,
               now)

\* generate_response(thread, content) returning the text `text`.
generate_response(thread, content, text, now) ==
  TutorMessage(thread.id, text,
               IF LastStudent(thread.messages) = None THEN {} ELSE generate_feedback,
               now)

\* --------------------------------------------------------------- requests
\* The request slots: one in-flight call of the service each.
Requests == {1, 2}

\* Thread ids: 0 was never generated.
ThreadIds == 0..MaxThreads

EmptyStore == [i \in ThreadIds |-> None]

\* The local state of a call: its arguments, the values its local variables
\* hold, and a record of what it did (old: the store when the call began;
\* writes: the records it saved, in order; pre: the store right before its
\* latest call of _save_thread; trimmed: the store right before
\* regenerate_tutor_response saved its shortened log; loaded: the thread handle_student_action
\* loaded first; gen_in: the thread handed to generate_response; gen_store:
\* the store at that moment).
EmptyFrame ==
  [op |-> "none", arg |-> None, tid |-> 0, sid |-> "", tags |-> <<>>,
   msg |-> None, thread |-> None, loaded |-> None, content |-> None, response |-> None,
   ret |-> "", contents |-> <<>>, threads |-> <<>>,
   old |-> EmptyStore, writes |-> <<>>, pre |-> EmptyStore,
   trimmed |-> EmptyStore, gen_in |-> None, gen_store |-> EmptyStore,
   result |-> None, status |-> "none"]

NewFrame(op) == [EmptyFrame EXCEPT !.op = op, !.old = store, !.status = "running"]

\* The inputs of the calls.
StartInputs ==
  {[sid |-> "student123", tags |-> <<>>],
   [sid |-> "student456", tags |-> <<"HIST.1">>],
   [sid |-> "student123", tags |-> <<"MATH.ALG.1">>],
   [sid |-> "student456", tags |-> <<"MATH.ALG.1">>],
   [sid |-> "student456", tags |-> <<"MATH.ALG.2", "HIST.1">>],
   [sid |-> "student123", tags |-> <<"SCIENCE.PHYS.1", "MATH.ALG.1">>]}

StudentInputs ==
  {[action |-> "question", content |-> <<"How do I solve this equation?">>],
   [action |-> "answer", content |-> <<"I think ", "X = 5">>],
   [action |-> "answer", content |-> <<"x = 7">>],
   [action |-> "chat", content |-> <<"This is hard.">>],
   [action |-> "regenerate", content |-> <<"Say it again.">>]}

TutorInputs == {[content |-> <<"Welcome back.">>, feedback |-> {<<"clarity", 90>>}]}

\* The messages a caller of add_message builds itself.
AddInputs == {i \in StudentInputs : i.action \in {"question", "regenerate"}}

\* The ids a caller names: those of the threads created so far, and the
\* unknown id 0.
CallerIds == 0..(nextId - 1)

Idle(r) == pc[r] = "idle"

\* A call ends: its frame keeps what it did until the caller takes the result.
Finish(r, frame, status) ==
  /\ pc' = [pc EXCEPT ![r] = "done"]
  /\ loc' = [loc EXCEPT ![r] = [frame EXCEPT !.status = status]]
  /\ UNCHANGED <<instance, reachable>>

Goto(r, label, frame) ==
  /\ pc' = [pc EXCEPT ![r] = label]
  /\ loc' = [loc EXCEPT ![r] = frame]
  /\ UNCHANGED <<instance, reachable>>

\* ------------------------------------------------------ start_conversation
\* The threads the running start_conversation calls have yet to create.
RECURSIVE Pending(_)
Pending(rs) ==
  IF rs = {} THEN 0
  ELSE LET r == CHOOSE x \in rs : TRUE
           n == IF pc[r] = "create_thread"
                THEN Len(loc[r].contents) - Len(loc[r].threads) ELSE 0
       IN  n + Pending(rs \ {r})

\* start_conversation(student_id, usmos): the content lookup and the empty case.
StartConversation(r, sid, tags) ==
  /\ Idle(r)
  /\ clock < MaxClock
  /\ LET contents == get_mock_content(tags)
         frame == [NewFrame("start_conversation") EXCEPT
                     !.sid = sid, !.tags = tags, !.contents = contents]
     IN  /\ nextId - 1 + Pending(Requests) + Len(contents) <= MaxThreads
         /\ IF contents = <<>>
            THEN Finish(r, frame, "ok")
            ELSE Goto(r, "create_thread", frame)
  /\ UNCHANGED <<store, clock, nextId, dspy_configured>>

\* Faulty variant: the thread refers to the content by its first tag.
NewThread_tag(id, sid, content, c) ==
  ConversationThread(id, sid, content.usmos, content.usmos[1], <<>>,
                     NowAt(c), NowAt(c + 1))

\* The thread create_thread builds for a content item.
NewThread(id, sid, content, c) ==
  ConversationThread(id, sid, content.usmos, content.content_id, <<>>,
                     NowAt(c), NowAt(c + 1))

\* One turn of the loop of start_conversation: create_thread(student_id,
\* content) for the next content item, which saves the new thread.
CreateThread(r) ==
  /\ pc[r] = "create_thread"
  /\ LET f == loc[r]
         content == f.contents[Len(f.threads) + 1]
         thread == NewThread(nextId, f.sid, content, clock)
         frame == [f EXCEPT !.threads = Append(@, thread), !.pre = store,
                            !.writes = Append(@, ThreadRedis(thread))]
     IN  /\ store' = save_thread(store, thread)
         /\ nextId' = nextId + 1
         /\ clock' = clock + 2
         /\ IF Len(frame.threads) = Len(f.contents)
            THEN Finish(r, frame, "ok")
            ELSE Goto(r, "create_thread", frame)
  /\ UNCHANGED dspy_configured

\* -------------------------------------------------------------- get_thread
\* get_thread(thread_id) called on its own.
GetThread(r, tid) ==
  /\ Idle(r)
  /\ Finish(r, [NewFrame("get_thread") EXCEPT
                  !.tid = tid, !.result = get_thread(store, tid, Now)], "ok")
  /\ UNCHANGED <<store, clock, nextId, dspy_configured>>

\* ------------------------------------------------------------- add_message
\* add_message(message) called on its own, with a message the caller built.
AddMessage(r, msg) ==
  /\ Idle(r)
  /\ clock < MaxClock
  /\ Goto(r, "add_load", [NewFrame("add_message") EXCEPT
                            !.arg = Some(msg), !.msg = Some(msg),
                            !.tid = msg.conversation_id, !.ret = "return"])
  /\ clock' = clock + 1
  /\ UNCHANGED <<store, nextId, dspy_configured>>

\* Faulty variant: the message is put at the head.
Appended_head(thread, msg, now) ==
  [thread EXCEPT !.messages = <<msg>> \o @, !.updated_at = now]

\* The thread add_message saves: the message at the tail, updated_at now.
Appended(thread, msg, now) ==
  [thread EXCEPT !.messages = Append(@, msg), !.updated_at = now]

\* add_message, first half: load the thread of the message, fail when there
\* is none, append in memory.
AddLoad(r) ==
  /\ pc[r] = "add_load"
  /\ LET f == loc[r]
         msg == f.msg[1]
         thread == get_thread(store, msg.conversation_id, Now)
     IN  IF thread = None
         THEN /\ Finish(r, f, "ValueError")
              /\ UNCHANGED clock
         ELSE /\ Goto(r, "add_save",
                      [f EXCEPT !.thread = Some(Appended(thread[1], msg, Now))])
              /\ clock' = clock + 1
  /\ UNCHANGED <<store, nextId, dspy_configured>>

\* Faulty variant: the reply is generated from the thread loaded first.
HandleReplyThread_stale(first, added) == first

\* thread = await self.add_message(message): handle_student_action goes on
\* with the thread add_message returned, not with the one it loaded first.
HandleReplyThread(first, added) == added

\* add_message, second half: save the thread; then the caller goes on.
\* In handle_student_action the caller branches on the action and, unless it
\* is regenerate, generates the reply from the thread add_message returned.
AddSave(r) ==
  /\ pc[r] = "add_save"
  /\ LET f == loc[r]
         thread == f.thread[1]
         saved == [f EXCEPT !.writes = Append(@, ThreadRedis(thread)), !.pre = store]
     IN  /\ store' = save_thread(store, thread)
         /\ CASE f.ret = "return" ->
                   /\ Finish(r, [saved EXCEPT !.result = Some(thread)], "ok")
                   /\ UNCHANGED clock
              [] f.ret = "reply" ->
                   /\ Finish(r, [saved EXCEPT !.result = f.response], "ok")
                   /\ UNCHANGED clock
              [] f.ret = "handle" /\ f.arg[1].action = "regenerate" ->
                   /\ Goto(r, "regenerate", saved)
                   /\ UNCHANGED clock
              [] f.ret = "handle" /\ f.arg[1].action # "regenerate" ->
                   LET given == HandleReplyThread(f.loaded[1], thread)
                   IN  \E text \in ResponseTexts(given, f.content[1], dspy_configured) :
                         LET response == generate_response(given, f.content[1], text, Now)
                         IN  /\ Goto(r, "add_load",
                                     [saved EXCEPT !.response = Some(response),
                                                   !.msg = Some(response),
                                                   !.gen_in = Some(given),
                                                   !.gen_store = store',
                                                   !.ret = "reply"])
                             /\ clock' = clock + 1
  /\ UNCHANGED <<nextId, dspy_configured>>

\* --------------------------------------------------- handle_student_action
\* handle_student_action(message) is called with the message the endpoint
\* built from the request body.
HandleStudentAction(r, tid, input) ==
  /\ Idle(r)
  /\ clock < MaxClock
  /\ LET msg == StudentMessage(tid, input.content, input.action, Now)
     IN  Goto(r, "handle", [NewFrame("handle_student_action") EXCEPT
                              !.arg = Some(msg), !.tid = tid])
  /\ clock' = clock + 1
  /\ UNCHANGED <<store, nextId, dspy_configured>>

\* handle_student_action up to its call of add_message: the thread and its
\* content must exist.
HandleGet(r) ==
  /\ pc[r] = "handle"
  /\ LET f == loc[r]
         thread == get_thread(store, f.tid, Now)
     IN  IF thread = None
         THEN Finish(r, f, "ValueError")
         ELSE LET content == get_content(thread[1].content_id)
              IN  IF content = None
                  THEN Finish(r, f, "ValueError")
                  ELSE Goto(r, "add_load",
                            [f EXCEPT !.content = content, !.msg = f.arg,
                                      !.loaded = thread, !.ret = "handle"])
  /\ UNCHANGED <<store, clock, nextId, dspy_configured>>

\* ----------------------------------------------- regenerate_tutor_response
\* regenerate_tutor_response(thread_id) called on its own.
RegenerateTutorResponse(r, tid) ==
  /\ Idle(r)
  /\ clock < MaxClock
  /\ Goto(r, "regenerate", [NewFrame("regenerate_tutor_response") EXCEPT !.tid = tid])
  /\ UNCHANGED <<store, clock, nextId, dspy_configured>>

\* Faulty variants: any last message is removed; none is.
TrimsTail_any(msgs) == msgs # <<>>

TrimsTail_never(msgs) == FALSE

\* Whether regenerate_tutor_response removes the last message.
TrimsTail(msgs) == msgs # <<>> /\ IsTutor(Last(msgs))

\* The step to generate_response and into add_message(response).
Generate(r, f, thread, content) ==
  \E text \in ResponseTexts(thread, content, dspy_configured) :
    LET response == generate_response(thread, content, text, Now)
    IN  /\ Goto(r, "add_load",
                [f EXCEPT !.response = Some(response), !.msg = Some(response),
                          !.gen_in = Some(thread), !.gen_store = store',
                          !.ret = "reply"])
        /\ clock' = clock + 1

\* regenerate_tutor_response up to its first store write: load the thread and
\* its content; pop a trailing tutor message, or go straight to generating.
RegenerateGet(r) ==
  /\ pc[r] = "regenerate"
  /\ LET f == loc[r]
         thread == get_thread(store, f.tid, Now)
     IN  IF thread = None
         THEN /\ Finish(r, f, "ValueError")
              /\ UNCHANGED <<store, clock>>
         ELSE LET content == get_content(thread[1].content_id)
              IN  IF content = None
                  THEN /\ Finish(r, f, "ValueError")
                       /\ UNCHANGED <<store, clock>>
                  ELSE IF TrimsTail(thread[1].messages)
                  THEN /\ Goto(r, "trim_save",
                               [f EXCEPT !.content = content,
                                         !.thread = Some([thread[1] EXCEPT
                                                           !.messages = Front(@)])])
                       /\ UNCHANGED <<store, clock>>
                  ELSE /\ UNCHANGED store
                       /\ Generate(r, [f EXCEPT !.content = content],
                                   thread[1], content[1])
  /\ UNCHANGED <<nextId, dspy_configured>>

\* The save of the shortened log, then generate_response on it.
TrimSave(r) ==
  /\ pc[r] = "trim_save"
  /\ LET f == loc[r]
         thread == f.thread[1]
     IN  /\ store' = save_thread(store, thread)
         /\ Generate(r, [f EXCEPT !.writes = Append(@, ThreadRedis(thread)),
                                   !.pre = store, !.trimmed = store],
                     thread, f.content[1])
  /\ UNCHANGED <<nextId, dspy_configured>>

\* The caller takes the result (or the exception) of a finished call.
Return(r) ==
  /\ pc[r] = "done"
  /\ Goto(r, "idle", EmptyFrame)
  /\ UNCHANGED <<store, clock, nextId, dspy_configured>>

\* --------------------------------------------------------------- endpoints
\* Faulty variant: every exception is answered with 500.
send_message_status_plain(outcome) ==
  IF outcome = "ok" THEN 200 ELSE 500

\* POST /chat/message: the status of the response for an outcome of
\* handle_student_action (ValueError is mapped to 404, any other exception
\* to 500).
send_message_status(outcome) ==
  CASE outcome = "ok" -> 200
    [] outcome = "ValueError" -> 404
    [] OTHER -> 500

\* POST /chat/regenerate: the status for what the try block did: it returned
\* the reply, raised ValueError (answered 404), or raised anything else,
\* its own HTTPException(400) included (answered 500 by "except Exception").
regenerate_response_status(outcome) ==
  CASE outcome = "ok" -> 200
    [] outcome = "ValueError" -> 404
    [] OTHER -> 500

\* ---------------------------------------------------------- specifications
Init ==
  /\ instance = None
  /\ reachable = TRUE
  /\ store = EmptyStore
  /\ clock = 0
  /\ nextId = 1
  /\ dspy_configured \in BOOLEAN
  /\ pc = [r \in Requests |-> "idle"]
  /\ loc = [r \in Requests |-> EmptyFrame]

\* Calls one after the other: only slot 1 is used, and a call begins when it
\* is idle.
Next ==
  \E r \in {1} :
    \/ \E i \in StartInputs : StartConversation(r, i.sid, i.tags)
    \/ CreateThread(r)
    \/ \E tid \in CallerIds : GetThread(r, tid)
    \/ \E tid \in CallerIds, i \in AddInputs :
         AddMessage(r, StudentMessage(tid, i.content, i.action, Now))
    \/ \E tid \in CallerIds, i \in TutorInputs :
         AddMessage(r, TutorMessage(tid, i.content, i.feedback, Now))
    \/ AddLoad(r)
    \/ AddSave(r)
    \/ \E tid \in CallerIds, i \in StudentInputs : HandleStudentAction(r, tid, i)
    \/ HandleGet(r)
    \/ \E tid \in CallerIds : RegenerateTutorResponse(r, tid)
    \/ RegenerateGet(r)
    \/ TrimSave(r)
    \/ Return(r)

Spec == Init /\ [][Next]_vars

\* ------------------------------------------------------------ codec inputs
\* Threads handed to _save_thread: any header values, any mix and order of
\* the two message variants, timestamps with and without microseconds, with
\* and without a zone.
RTMessages ==
  {StudentMessage(1, <<"How do I solve this equation?">>, "question",
                  [s |-> 3, us |-> 500000, tz |-> "+00:00"]),
   StudentMessage(2, <<>>, "regenerate", [s |-> 3, us |-> 0, tz |-> "+00:00"]),
   TutorMessage(1, <<"That's correct! Well done.">>, generate_feedback,
                [s |-> 4, us |-> 250000, tz |-> ""]),
   TutorMessage(1, <<"Let's discuss this problem: ">>, {},
                [s |-> 3, us |-> 0, tz |-> "+00:00"])}

RTHeaders ==
  {[id |-> 1, student_id |-> "student123", usmos |-> <<"MATH.ALG.1">>,
    content_id |-> "content123",
    created_at |-> [s |-> 3, us |-> 0, tz |-> "+00:00"],
    updated_at |-> [s |-> 3, us |-> 500000, tz |-> "+00:00"]],
   [id |-> 2, student_id |-> "", usmos |-> <<>>, content_id |-> "",
    created_at |-> [s |-> 4, us |-> 250000, tz |-> ""],
    updated_at |-> [s |-> 4, us |-> 250000, tz |-> ""]],
   [id |-> 2, student_id |-> "student456",
    usmos |-> <<"MATH.ALG.2", "MATH.ALG.2", "HIST.1">>, content_id |-> "content000",
    created_at |-> [s |-> 3, us |-> 500000, tz |-> "+00:00"],
    updated_at |-> [s |-> 3, us |-> 0, tz |-> "+00:00"]]}

RTThreads ==
  {ConversationThread(h.id, h.student_id, h.usmos, h.content_id, msgs,
                      h.created_at, h.updated_at) :
     h \in RTHeaders, msgs \in SeqsUpTo(RTMessages, RTMaxLen)}

\* Records found in the store that this program version did not write: the
\* store is an external service. ForeignBase is a well-formed record; the
\* others differ from it in one field.
ForeignThread ==
  ConversationThread(1, "student123", <<"MATH.ALG.1">>, "content123",
                     <<StudentMessage(1, <<"x = 7">>, "answer", NowAt(1)),
                       TutorMessage(1, <<"Not quite.">>, generate_feedback, NowAt(2))>>,
                     NowAt(0), NowAt(2))

ForeignBase == ThreadRedis(ForeignThread)

StudentDict == MessageDict(ForeignThread.messages[1])

TutorDict == MessageDict(ForeignThread.messages[2])

WithMessages(dicts) == [ForeignBase EXCEPT !.messages = json_dumps(dicts)]

\* Well-formed records whose message mappings have keys _save_thread never
\* writes together: a tutor mapping with a null action, a tutor mapping with
\* an action, a mapping without feedback and without a timestamp.
OddRecords ==
  {WithMessages(<<[conversation_id |-> 1, content |-> <<"Not quite.">>,
                   feedback |-> {}, action |-> Null, timestamp |-> isoformat(NowAt(2))],
                  StudentDict>>),
   WithMessages(<<[conversation_id |-> 1, content |-> <<"Not quite.">>,
                   feedback |-> generate_feedback, action |-> "chat",
                   timestamp |-> isoformat(NowAt(2))]>>),
   WithMessages(<<StudentDict, [conversation_id |-> 1, content |-> <<"Hello.">>]>>)}

\* Records that cannot be decoded: malformed JSON, an unparsable timestamp,
\* an unknown action value, a missing field.
CorruptRecords ==
  {[ForeignBase EXCEPT !.messages = MalformedJson],
   [ForeignBase EXCEPT !.usmos_json = MalformedJson],
   [ForeignBase EXCEPT !.content_ids = MalformedJson],
   [ForeignBase EXCEPT !.created_at = BadIso],
   [ForeignBase EXCEPT !.updated_at = BadIso],
   WithMessages(<<StudentDict, [TutorDict EXCEPT !.timestamp = BadIso]>>),
   WithMessages(<<[StudentDict EXCEPT !.action = "bogus"], TutorDict>>),
   WithMessages(<<[conversation_id |-> 1, action |-> "question",
                   timestamp |-> isoformat(NowAt(1))]>>),
   WithMessages(<<StudentDict,
                  [content |-> <<"Not quite.">>, feedback |-> {},
                   timestamp |-> isoformat(NowAt(2))]>>)}

\* A record whose content_ids list is empty.
NoContentRecord == [ForeignBase EXCEPT !.content_ids = json_dumps(<<>>)]

\* A record whose content id is in neither mock table.
UnknownContentRecord == [ForeignBase EXCEPT !.content_ids = json_dumps(<<"content000">>)]

ForeignRecords ==
  {ForeignBase, NoContentRecord, UnknownContentRecord} \cup OddRecords \cup CorruptRecords

\* _save_thread(thread) called with a thread of the caller's.
RoundTripSave(r) ==
  /\ pc[r] = "rt_save"
  /\ store' = save_thread(store, loc[r].thread[1])
  /\ Goto(r, "rt_load", [loc[r] EXCEPT !.writes = <<ThreadRedis(loc[r].thread[1])>>])
  /\ UNCHANGED <<clock, nextId, dspy_configured>>

\* get_thread(thread.id) after it.
RoundTripLoad(r) ==
  /\ pc[r] = "rt_load"
  /\ Finish(r, [loc[r] EXCEPT !.result = get_thread(store, loc[r].tid, Now)], "ok")
  /\ UNCHANGED <<store, clock, nextId, dspy_configured>>

\* The codec on its own: either a thread to save and load again, or a store
\* that holds a foreign record under id 1, with get_thread called on it.
InitCodec ==
  /\ instance = None
  /\ reachable = TRUE
  /\ clock = 0
  /\ nextId = 2
  /\ dspy_configured = FALSE
  /\ \/ /\ store = EmptyStore
        /\ pc = [r \in Requests |-> IF r = 1 THEN "rt_save" ELSE "idle"]
        /\ \E t \in RTThreads :
             loc = [r \in Requests |->
                      IF r = 1
                      THEN [EmptyFrame EXCEPT !.op = "roundtrip", !.tid = t.id,
                                              !.thread = Some(t), !.status = "running"]
                      ELSE EmptyFrame]
     \/ /\ \E rec \in ForeignRecords : store = SaveRecord(EmptyStore, rec)
        /\ pc = [r \in Requests |-> "idle"]
        /\ loc = [r \in Requests |-> EmptyFrame]

NextCodec ==
  \E r \in {1} :
    \/ RoundTripSave(r)
    \/ RoundTripLoad(r)
    \/ \E tid \in ThreadIds : GetThread(r, tid)
    \/ Return(r)

SpecCodec == InitCodec /\ [][NextCodec]_vars

\* ------------------------------------------------------------------ claims
\* The call in slot r has finished and its result has not been taken yet.
Done(r, op) == pc[r] = "done" /\ loc[r].op = op

DoneOk(r, op) == Done(r, op) /\ loc[r].status = "ok"

\* The message log get_thread returns for a stored, decodable thread.
StoredLog(st, tid) == get_thread(st, tid, Now)[1].messages

Exists(st, tid) == get_thread(st, tid, Now) # None

\* The log a saved record holds.
RecordLog(rec) == DecodeRecord(rec, Now)[1].messages

\* C1: a successful add_message call leaves the stored log of its thread equal
\* to the log before the call with the new message appended at the tail
\* (length + 1, earlier messages in place), with one store write; it returns
\* that thread.
C1_AddMessageAppends ==
  \A r \in Requests :
    DoneOk(r, "add_message") =>
      LET f == loc[r]
          before == StoredLog(f.old, f.tid)
          after == StoredLog(store, f.tid)
      IN  /\ after = Append(before, f.arg[1])
          /\ Len(after) = Len(before) + 1
          /\ \A i \in 1..Len(before) : after[i] = before[i]
          /\ f.result[1].messages = after
          /\ Len(f.writes) = 1

C1_Witness ==
  \E r \in Requests :
    /\ DoneOk(r, "add_message")
    /\ Len(StoredLog(loc[r].old, loc[r].tid)) >= 2
    /\ IsStudent(loc[r].arg[1])

\* C2: regenerate_tutor_response on a thread whose stored log ends with a
\* TutorMessage saves the log without that message first and the log with one
\* new TutorMessage appended second: the final log has the old length, is the
\* old log with its last element replaced, and ends with the returned message.
\* Between the two saves the stored log is the old log without its tail.
C2_RegenerateReplacesTail ==
  \A r \in Requests :
    LET f == loc[r] IN
    (/\ f.op = "regenerate_tutor_response"
     /\ Exists(f.old, f.tid)
     /\ StoredLog(f.old, f.tid) # <<>>
     /\ IsTutor(Last(StoredLog(f.old, f.tid)))) =>
      LET before == StoredLog(f.old, f.tid)
          now == StoredLog(store, f.tid)
      IN  /\ pc[r] \in {"add_load", "add_save"} =>
               /\ Len(f.writes) = 1
               /\ RecordLog(f.writes[1]) = Front(before)
               /\ now = Front(before)
          /\ pc[r] = "done" =>
               /\ f.status = "ok"
               /\ Len(f.writes) = 2
               /\ RecordLog(f.writes[1]) = Front(before)
               /\ RecordLog(f.writes[2]) = now
               /\ IsTutor(f.result[1])
               /\ now = Append(Front(before), f.result[1])
               /\ Len(now) = Len(before)
               /\ Last(now) = f.result[1]

C2_Witness ==
  \E r \in Requests :
    /\ DoneOk(r, "regenerate_tutor_response")
    /\ Len(StoredLog(loc[r].old, loc[r].tid)) >= 2
    /\ IsTutor(Last(StoredLog(loc[r].old, loc[r].tid)))

\* C3: regenerate_tutor_response on a thread whose stored log is empty or
\* ends with a StudentMessage removes nothing and writes no shortened log: its
\* only store write is the old log plus one new TutorMessage (length + 1).
C3_RegenerateAppendsOnly ==
  \A r \in Requests :
    LET f == loc[r] IN
    (/\ f.op = "regenerate_tutor_response"
     /\ Exists(f.old, f.tid)
     /\ (StoredLog(f.old, f.tid) = <<>> \/ IsStudent(Last(StoredLog(f.old, f.tid))))) =>
      LET before == StoredLog(f.old, f.tid)
          now == StoredLog(store, f.tid)
      IN  /\ pc[r] # "trim_save"
          /\ pc[r] \in {"regenerate", "add_load", "add_save"} =>
               f.writes = <<>> /\ now = before
          /\ pc[r] = "done" =>
               /\ f.status = "ok"
               /\ Len(f.writes) = 1
               /\ IsTutor(f.result[1])
               /\ now = Append(before, f.result[1])
               /\ Len(now) = Len(before) + 1

C3_Witness ==
  \E r \in Requests :
    /\ DoneOk(r, "regenerate_tutor_response")
    /\ StoredLog(loc[r].old, loc[r].tid) # <<>>
    /\ IsStudent(Last(StoredLog(loc[r].old, loc[r].tid)))

\* C4: handle_student_action with action question, answer or chat on a thread
\* with resolvable content: once the reply exists, the store already held the
\* old log followed by the student message when it was generated, and it was
\* generated from exactly that log; at the end the stored log is the old log
\* followed by the student message and the returned tutor message.
C4_HandleAppendsPair ==
  \A r \in Requests :
    LET f == loc[r] IN
    (/\ f.op = "handle_student_action"
     /\ f.arg[1].action # "regenerate"
     /\ Exists(f.old, f.tid)) =>
      LET before == StoredLog(f.old, f.tid)
          student == f.arg[1]
      IN  /\ f.response # None =>
               /\ StoredLog(f.gen_store, f.tid) = Append(before, student)
               /\ f.gen_in[1].messages = Append(before, student)
               /\ f.response[1].conversation_id = f.tid
               /\ IsTutor(f.response[1])
          /\ pc[r] = "done" =>
               /\ f.status = "ok"
               /\ f.result = f.response
               /\ StoredLog(store, f.tid) = before \o <<student, f.result[1]>>

C4_Witness ==
  \E r \in Requests :
    /\ DoneOk(r, "handle_student_action")
    /\ loc[r].arg[1].action = "answer"
    /\ StoredLog(loc[r].old, loc[r].tid) # <<>>

\* The ids under which a store holds a record.
StoredIds(st) == {i \in ThreadIds : st[i] # None}

\* C7: start_conversation with a non-empty content lookup returns one thread
\* per content item, in order, each with the caller's student_id, the
\* content's own tags and id and an empty log; each is stored under a new id
\* of its own, and nothing else is stored.
C7_StartCreatesThreadPerContent ==
  \A r \in Requests :
    LET f == loc[r]
        contents == get_mock_content(f.tags)
    IN  (DoneOk(r, "start_conversation") /\ contents # <<>>) =>
          /\ f.contents = contents
          /\ Len(f.threads) = Len(contents)
          /\ \A i \in 1..Len(contents) :
               LET t == f.threads[i] IN
               /\ t.student_id = f.sid
               /\ t.usmos = contents[i].usmos
               /\ t.content_id = contents[i].content_id
               /\ t.messages = <<>>
               /\ f.old[t.id] = None
               /\ get_thread(store, t.id, Now) = Some(t)
          /\ \A i, j \in 1..Len(contents) :
               i # j => f.threads[i].id # f.threads[j].id
          /\ StoredIds(store) =
               StoredIds(f.old) \cup {f.threads[i].id : i \in 1..Len(contents)}
          /\ \A i \in StoredIds(f.old) : store[i] = f.old[i]

C7_Witness ==
  \E r \in Requests :
    /\ DoneOk(r, "start_conversation")
    /\ Len(loc[r].threads) = 2
    /\ loc[r].threads[1].usmos # loc[r].tags
    /\ loc[r].threads[1].content_id # loc[r].threads[2].content_id

\* C8: start_conversation for tags none of which has content returns empty
\* threads and contents, without an exception and without a store write: the
\* store is what it was before the call.
C8_StartWithoutContent ==
  \A r \in Requests :
    LET f == loc[r] IN
    (/\ f.op = "start_conversation"
     /\ \A i \in 1..Len(f.tags) : f.tags[i] \notin MockDataTags) =>
      /\ pc[r] = "done"
      /\ f.status = "ok"
      /\ f.threads = <<>>
      /\ f.contents = <<>>
      /\ f.writes = <<>>
      /\ store = f.old

C8_Witness ==
  \E r \in Requests :
    /\ DoneOk(r, "start_conversation")
    /\ loc[r].tags # <<>>
    /\ loc[r].contents = <<>>
    /\ StoredIds(store) # {}

\* C9: handle_student_action, add_message and regenerate_tutor_response for an
\* id without a stored thread end with ValueError (404 at the message and
\* regenerate endpoints) and never write: the store stays what it was.
C9_UnknownThreadFails ==
  \A r \in Requests :
    LET f == loc[r] IN
    (/\ f.op \in {"handle_student_action", "add_message", "regenerate_tutor_response"}
     /\ f.old[f.tid] = None) =>
      /\ f.writes = <<>>
      /\ store = f.old
      /\ pc[r] = "done" =>
           /\ f.status = "ValueError"
           /\ f.result = None
           /\ f.op = "handle_student_action" => send_message_status(f.status) = 404
           /\ f.op = "regenerate_tutor_response" =>
                regenerate_response_status(f.status) = 404

C9_Witness ==
  \E r \in Requests :
    /\ Done(r, "handle_student_action")
    /\ loc[r].status = "ValueError"
    /\ StoredIds(store) # {}

\* C5: a thread saved with _save_thread and loaded with get_thread by its id
\* comes back with the same id, student_id, usmos, content_id, created_at,
\* updated_at and the same message sequence (length, order, variant and fields
\* of every message).
C5_RoundTrip ==
  \A r \in Requests :
    Done(r, "roundtrip") =>
      LET saved == loc[r].thread[1]
          loaded == loc[r].result
      IN  /\ loaded # None
          /\ loaded[1].id = saved.id
          /\ loaded[1].student_id = saved.student_id
          /\ loaded[1].usmos = saved.usmos
          /\ loaded[1].content_id = saved.content_id
          /\ loaded[1].created_at = saved.created_at
          /\ loaded[1].updated_at = saved.updated_at
          /\ Len(loaded[1].messages) = Len(saved.messages)
          /\ \A i \in 1..Len(saved.messages) :
               loaded[1].messages[i] = saved.messages[i]
          /\ loaded[1] = saved

C5_Witness ==
  \E r \in Requests :
    /\ Done(r, "roundtrip")
    /\ LET msgs == loc[r].thread[1].messages
       IN  /\ Len(msgs) >= 2
           /\ IsTutor(msgs[1])
           /\ IsStudent(msgs[2])
           /\ msgs[2].timestamp.us # 0
    /\ loc[r].thread[1].created_at.us # 0

\* A field mapping has a non-null action.
HasAction(d) == "action" \in DOMAIN d /\ d.action # Null

\* C6: in every thread get_thread returns, the i-th message is a
\* StudentMessage exactly when the i-th stored field mapping has a non-null
\* action, and a TutorMessage otherwise; a thread written by _save_thread is
\* loaded with the variant of every message as it was saved.
C6_Discriminant ==
  \A r \in Requests :
    (pc[r] = "done" /\ loc[r].op \in {"roundtrip", "get_thread"}
       /\ loc[r].result # None) =>
      LET dicts == json_loads(store[loc[r].tid][1].messages)
          msgs == loc[r].result[1].messages
      IN  /\ Len(msgs) = Len(dicts)
          /\ \A i \in 1..Len(dicts) :
               /\ IsStudent(msgs[i]) <=> HasAction(dicts[i])
               /\ IsTutor(msgs[i]) <=> ~ HasAction(dicts[i])
          /\ loc[r].op = "roundtrip" =>
               \A i \in 1..Len(dicts) :
                 msgs[i].kind = loc[r].thread[1].messages[i].kind

C6_Witness ==
  \E r \in Requests :
    /\ Done(r, "get_thread")
    /\ loc[r].result # None
    /\ LET dicts == json_loads(store[loc[r].tid][1].messages)
           msgs == loc[r].result[1].messages
       IN  /\ Len(msgs) = 2
           /\ "action" \in DOMAIN dicts[1]
           /\ IsTutor(msgs[1])
           /\ IsStudent(msgs[2])

\* C10: get_thread ends without an exception; for an id without a record and
\* for a record that cannot be decoded it returns None; it never changes the
\* store.
C10_GetThreadNotFound ==
  \A r \in Requests :
    Done(r, "get_thread") =>
      LET f == loc[r] IN
      /\ f.status = "ok"
      /\ store = f.old
      /\ f.writes = <<>>
      /\ f.old[f.tid] = None => f.result = None
      /\ (f.old[f.tid] # None /\ f.old[f.tid][1] \in CorruptRecords) => f.result = None

C10_Witness ==
  \E r \in Requests :
    /\ Done(r, "get_thread")
    /\ loc[r].old[loc[r].tid] # None
    /\ loc[r].old[loc[r].tid][1] \in CorruptRecords
    /\ loc[r].result = None

\* -------------------------------------------------------- concurrent calls
\* The service holds no lock and each of its store calls is one command to
\* the shared store, so calls served by different workers interleave between
\* their store calls. Each slot of Requests is one such worker.
ConcStartInputs == {i \in StartInputs : i.tags = <<"MATH.ALG.1">> /\ i.sid = "student123"}

ConcStudentInputs == {i \in StudentInputs : i.action \in {"question", "regenerate"}}

\* A call begins while the clock is below MaxConcClock; the steps of the calls
\* that have begun run to their end.
Begin(A) == clock < MaxConcClock /\ A

NextConc ==
  \E r \in Requests :
    \/ \E i \in ConcStartInputs : Begin(StartConversation(r, i.sid, i.tags))
    \/ CreateThread(r)
    \/ \E tid \in CallerIds : Begin(GetThread(r, tid))
    \/ \E tid \in CallerIds, i \in ConcStudentInputs :
         Begin(AddMessage(r, StudentMessage(tid, i.content, i.action, Now)))
    \/ AddLoad(r)
    \/ AddSave(r)
    \/ \E tid \in CallerIds, i \in ConcStudentInputs :
         Begin(HandleStudentAction(r, tid, i))
    \/ HandleGet(r)
    \/ \E tid \in CallerIds : Begin(RegenerateTutorResponse(r, tid))
    \/ RegenerateGet(r)
    \/ TrimSave(r)
    \/ Return(r)

SpecConc == Init /\ [][NextConc]_vars

\* The log an add_message call loaded, before it appended its message.
BaseLog(r) == Front(loc[r].thread[1].messages)

\* Two finished add_message calls on one thread that both loaded the same log
\* (so both loaded before either saved), q saving after r: the record q
\* replaced is the one r wrote.
Overlapped(r, q) ==
  /\ r # q
  /\ Done(r, "add_message") /\ Done(q, "add_message")
  /\ loc[r].thread # None /\ loc[q].thread # None
  /\ loc[r].tid = loc[q].tid
  /\ BaseLog(r) = BaseLog(q)
  /\ loc[r].writes # <<>> /\ loc[q].writes # <<>>
  /\ loc[q].pre[loc[q].tid] = Some(loc[r].writes[1])

\* C11: when two add_message calls on one thread overlap (both load before
\* either saves), both succeed and return their thread, and the stored log is
\* the loaded log plus the message of the later save only: the message of the
\* earlier save is gone and neither caller is told.
C11_LastSaveWins ==
  \A r \in Requests, q \in Requests :
    Overlapped(r, q) =>
      LET after == StoredLog(store, loc[q].tid)
      IN  /\ loc[r].status = "ok" /\ loc[q].status = "ok"
          /\ loc[r].result # None /\ loc[q].result # None
          /\ after = Append(BaseLog(q), loc[q].arg[1])
          /\ Len(after) = Len(BaseLog(r)) + 1
          /\ \A i \in 1..Len(after) : after[i] # loc[r].arg[1]

\* Two overlapped add_message calls have both returned successfully.
C11_Witness ==
  \E r \in Requests, q \in Requests :
    /\ Overlapped(r, q)
    /\ loc[r].arg[1] # loc[q].arg[1]
    /\ loc[r].result[1].messages = Append(BaseLog(r), loc[r].arg[1])

\* The fields of a thread that are set when it is created.
Header(t) ==
  [id |-> t.id, student_id |-> t.student_id, usmos |-> t.usmos,
   content_id |-> t.content_id, created_at |-> t.created_at]

StoredHeader(st, tid) == Header(get_thread(st, tid, Now)[1])

\* C12: in every step of any interleaving of start_conversation, add_message,
\* handle_student_action and regenerate_tutor_response that writes the record
\* of a stored thread, the thread stays stored with the same id, student_id, usmos, content_id and
\* created_at; and the step that first stores a thread is a create_thread
\* step, which stores the new id, the caller's student id, the content's tags
\* and id, and the time of creation.
C12_HeaderStable ==
  [][\A tid \in ThreadIds :
       /\ (store'[tid] # store[tid] /\ Exists(store, tid)) =>
             /\ Exists(store', tid)
             /\ StoredHeader(store', tid) = StoredHeader(store, tid)
       /\ (store[tid] = None /\ store'[tid] # None) =>
             \E r \in Requests :
               /\ pc[r] = "create_thread"
               /\ tid = nextId
               /\ Exists(store', tid)
               /\ LET content == loc[r].contents[Len(loc[r].threads) + 1]
                  IN  StoredHeader(store', tid) =
                        [id |-> nextId, student_id |-> loc[r].sid,
                         usmos |-> content.usmos,
                         content_id |-> content.content_id,
                         created_at |-> Now]]_vars

\* A call that wrote a thread created before it began has finished, and a call
\* of another worker is under way.
C12_Witness ==
  \E r \in Requests, q \in Requests :
    /\ r # q
    /\ pc[r] = "done" /\ loc[r].status = "ok"
    /\ loc[r].op \in {"add_message", "handle_student_action", "regenerate_tutor_response"}
    /\ loc[r].writes # <<>>
    /\ Exists(loc[r].old, loc[r].tid)
    /\ store[loc[r].tid] # loc[r].old[loc[r].tid]
    /\ StoredHeader(store, loc[r].tid) = StoredHeader(loc[r].old, loc[r].tid)
    /\ pc[q] \notin {"idle", "done"}

IsPrefix(s, t) == Len(s) <= Len(t) /\ \A i \in 1..Len(s) : t[i] = s[i]

\* C13: with calls one after the other, every step that writes the record of
\* a stored thread leaves its log a prefix of the log after it, except the step of
\* regenerate_tutor_response that saves the log without its last message,
\* which is a TutorMessage: a stored StudentMessage stays at its index, and no
\* message other than the last is removed.
C13_OnlyTailTutorRemoved ==
  [][\A tid \in ThreadIds :
       (store'[tid] # store[tid] /\ Exists(store, tid)) =>
         LET before == StoredLog(store, tid)
             after == StoredLog(store', tid)
         IN  /\ Exists(store', tid)
             /\ \A i \in 1..Len(before) :
                  IsStudent(before[i]) => i <= Len(after) /\ after[i] = before[i]
             /\ \A i \in 1..(Len(before) - 1) : i <= Len(after) /\ after[i] = before[i]
             /\ \/ IsPrefix(before, after)
                \/ /\ \E r \in Requests : pc[r] = "trim_save" /\ loc[r].tid = tid
                   /\ before # <<>>
                   /\ IsTutor(Last(before))
                   /\ after = Front(before)]_vars

\* A regenerate_tutor_response call has removed the tutor message at the tail
\* of a log that holds a student message before it, and has finished.
C13_Witness ==
  \E r \in Requests :
    /\ DoneOk(r, "regenerate_tutor_response")
    /\ Len(loc[r].writes) = 2
    /\ LET before == StoredLog(loc[r].old, loc[r].tid)
           after == StoredLog(store, loc[r].tid)
       IN  /\ Len(before) >= 2
           /\ IsStudent(before[Len(before) - 1])
           /\ after[Len(before) - 1] = before[Len(before) - 1]
           /\ RecordLog(loc[r].writes[1]) = Front(before)

\* ------------------------------------------------ the service over HTTP
\* UsmosRequest.validate_usmos: None stands for the ValueError it raises.
validate_usmos_any(v) == Some(v)

validate_usmos(v) == IF v = <<>> THEN None ELSE Some(v)

\* UsmosRequest(usmos=...): the request, or None for the validation error.
UsmosRequest(usmos) ==
  IF validate_usmos(usmos) = None THEN None
  ELSE Some([usmos |-> validate_usmos(usmos)[1]])

\* StudentMessage(...) with the Literal check of its action field: the
\* message, or None for the validation error.
ValidStudentMessage(cid, content, action, ts) ==
  IF action \in Actions THEN Some(StudentMessage(cid, content, action, ts)) ELSE None

\* The request bodies sent to the endpoints.
ApiStartInputs ==
  {[sid |-> "student123", tags |-> <<>>],
   [sid |-> "student123", tags |-> <<"MATH.ALG.1">>],
   [sid |-> "student456", tags |-> <<"HIST.1">>],
   [sid |-> "student456", tags |-> <<"MATH.ALG.2", "MATH.ALG.1">>]}

ApiMessageInputs ==
  {[action |-> "question", content |-> <<"How do I solve this equation?">>],
   [action |-> "regenerate", content |-> <<"Say it again.">>],
   [action |-> "invalid_action", content |-> <<"How do I solve this equation?">>]}

\* The body does not build the model the endpoint takes: the endpoint function
\* is not called.
Rejected(r, model, sid, tags, body) ==
  /\ Idle(r)
  /\ Finish(r, [NewFrame(model) EXCEPT !.sid = sid, !.tags = tags, !.arg = body],
            "ValidationError")
  /\ UNCHANGED <<store, clock, nextId, dspy_configured>>

\* POST /chat/start?student_id= with body {usmos}
PostStart(r, sid, tags) ==
  LET request == UsmosRequest(tags)
  IN  IF request = None
      THEN Rejected(r, "UsmosRequest", sid, tags, None)
      ELSE StartConversation(r, sid, request[1].usmos)

\* POST /chat/message with a StudentMessage body
PostMessage(r, tid, input) ==
  IF ValidStudentMessage(tid, input.content, input.action, Now) = None
  THEN Rejected(r, "StudentMessage", "", <<>>, Some(input))
  ELSE HandleStudentAction(r, tid, input)

\* The bodies sent to POST /chat/regenerate: a mapping with the key
\* conversation_id, or one without it.
RegenerateBodies ==
  {[conversation_id |-> tid] : tid \in CallerIds} \cup {[thread |-> 1]}

\* POST /chat/regenerate with a dict body: without the key conversation_id
\* the try block raises HTTPException(400) before it calls the service;
\* otherwise it calls regenerate_tutor_response.
PostRegenerate(r, request) ==
  IF "conversation_id" \notin DOMAIN request
  THEN /\ Idle(r)
       /\ Finish(r, [NewFrame("regenerate_response") EXCEPT !.arg = Some(request)],
                 "HTTPException")
       /\ UNCHANGED <<store, clock, nextId, dspy_configured>>
  ELSE RegenerateTutorResponse(r, request.conversation_id)

\* POST /chat/start: any exception of start_conversation is answered with 500.
start_conversation_status(outcome) ==
  IF outcome = "ok" THEN 200 ELSE 500

\* The exception classes "except Exception" catches.
ExceptionClasses == {"Exception", "ValueError", "HTTPException"}

\* GET /chat/conversation/{id}: the body of the try block returns the thread
\* or raises HTTPException(404); the handler "except Exception" of the same
\* try block catches what the body raises and raises HTTPException(500).
get_conversation_status(thread) ==
  LET raised == IF thread = None
                THEN Some([class |-> "HTTPException", status_code |-> 404])
                ELSE None
  IN  IF raised = None THEN 200
      ELSE IF raised[1].class \in ExceptionClasses THEN 500
      ELSE raised[1].status_code

\* The status of the response to a finished call.
Response(f) ==
  CASE f.op = "start_conversation" -> start_conversation_status(f.status)
    [] f.op = "handle_student_action" -> send_message_status(f.status)
    [] f.op = "regenerate_tutor_response" -> regenerate_response_status(f.status)
    [] f.op = "regenerate_response" -> regenerate_response_status(f.status)
    [] f.op = "get_thread" -> get_conversation_status(f.result)

\* ------------------------------------------------------------ failed saves
\* Faulty variant: the old record is deleted before the write that fails.
failed_save_deleting(st, t) == [st EXCEPT ![t.id] = None]

\* _save_thread(thread) raising: the encoding or the one store command of
\* thread_redis.save() fails, nothing is written, the exception is logged and
\* raised again.
failed_save(st, t) == st

\* Faulty variant: the store is put back as it was when the call began.
start_conversation_except_rollback(st, began) == began

\* The except clause of start_conversation: the exception is logged and raised
\* again, the store is left as the loop left it.
start_conversation_except(st, began) == st

\* create_thread whose _save_thread raises: start_conversation logs and
\* raises it. The id was generated before the save.
CreateThreadFails(r) ==
  /\ pc[r] = "create_thread"
  /\ LET f == loc[r]
         content == f.contents[Len(f.threads) + 1]
         thread == NewThread(nextId, f.sid, content, clock)
     IN  /\ store' = start_conversation_except(failed_save(store, thread), f.old)
         /\ Finish(r, [f EXCEPT !.pre = store, !.tid = nextId], "Exception")
  /\ nextId' = nextId + 1
  /\ clock' = clock + 2
  /\ UNCHANGED dspy_configured

\* add_message whose _save_thread raises: neither add_message nor
\* handle_student_action nor regenerate_tutor_response catches it.
AddSaveFails(r) ==
  /\ pc[r] = "add_save"
  /\ store' = failed_save(store, loc[r].thread[1])
  /\ Finish(r, [loc[r] EXCEPT !.pre = store], "Exception")
  /\ UNCHANGED <<clock, nextId, dspy_configured>>

\* regenerate_tutor_response whose save of the shortened log raises.
TrimSaveFails(r) ==
  /\ pc[r] = "trim_save"
  /\ store' = failed_save(store, loc[r].thread[1])
  /\ Finish(r, [loc[r] EXCEPT !.pre = store], "Exception")
  /\ UNCHANGED <<clock, nextId, dspy_configured>>

\* The service behind its endpoints, over a store that is empty or holds a
\* record under id 1 that this service may not have written, and whose
\* writes may fail.
InitApi ==
  /\ instance = None
  /\ reachable = TRUE
  /\ \/ store = EmptyStore /\ nextId = 1
     \/ /\ \E rec \in ForeignRecords : store = SaveRecord(EmptyStore, rec)
        /\ nextId = 2
  /\ clock = 0
  /\ dspy_configured = FALSE
  /\ pc = [r \in Requests |-> "idle"]
  /\ loc = [r \in Requests |-> EmptyFrame]

NextApi ==
  \E r \in {1} :
    \/ \E i \in ApiStartInputs : PostStart(r, i.sid, i.tags)
    \/ CreateThread(r)
    \/ CreateThreadFails(r)
    \/ \E tid \in CallerIds : GetThread(r, tid)
    \/ \E tid \in CallerIds, i \in ApiMessageInputs : PostMessage(r, tid, i)
    \/ HandleGet(r)
    \/ AddLoad(r)
    \/ AddSave(r)
    \/ AddSaveFails(r)
    \/ \E request \in RegenerateBodies : PostRegenerate(r, request)
    \/ RegenerateGet(r)
    \/ TrimSave(r)
    \/ TrimSaveFails(r)
    \/ Return(r)

SpecApi == InitApi /\ [][NextApi]_vars

\* C14: a body with an empty usmos list or with an action outside question,
\* answer, chat, regenerate fails to build its model with a validation error:
\* no start_conversation call runs on an empty list and no
\* handle_student_action call on such an action, no record is written and the
\* store is what it was.
C14_InvalidInputRejected ==
  \A r \in Requests :
    /\ loc[r].op = "start_conversation" => loc[r].tags # <<>>
    /\ loc[r].op = "handle_student_action" => loc[r].arg[1].action \in Actions
    /\ Done(r, "UsmosRequest") =>
         /\ loc[r].tags = <<>>
         /\ loc[r].status = "ValidationError"
    /\ Done(r, "StudentMessage") =>
         /\ loc[r].arg[1].action \notin Actions
         /\ loc[r].status = "ValidationError"
    /\ (Done(r, "UsmosRequest") \/ Done(r, "StudentMessage")) =>
         /\ store = loc[r].old
         /\ loc[r].writes = <<>>
         /\ loc[r].threads = <<>>
         /\ loc[r].result = None

\* A body with an empty usmos list was rejected while a thread is stored.
C14_Witness ==
  \E r \in Requests :
    /\ Done(r, "UsmosRequest")
    /\ loc[r].tags = <<>>
    /\ \E tid \in ThreadIds : Exists(store, tid)

\* C15: GET /chat/conversation/{id} answers 200 with the thread when
\* get_thread finds it, and 404 when get_thread returns None.
C15_GetConversation ==
  \A r \in Requests :
    Done(r, "get_thread") =>
      IF loc[r].result # None
      THEN Response(loc[r]) = 200
      ELSE Response(loc[r]) = 404

\* The record of thread tid exists and does not decode.
Corrupt(st, tid) == st[tid] # None /\ DecodeRecord(st[tid][1], Now) = None

OnThread(r) ==
  /\ pc[r] = "done"
  /\ loc[r].op \in {"handle_student_action", "regenerate_tutor_response"}

\* C16 as stated: an operation on a thread whose record does not decode is
\* answered with a server error.
C16_CorruptIsServerError ==
  \A r \in Requests :
    (OnThread(r) /\ Corrupt(loc[r].old, loc[r].tid)) => Response(loc[r]) >= 500

\* C16, amended: an operation on a thread whose record does not decode ends
\* with the ValueError of an absent thread and is answered with 404, the
\* same as for an id that has no record; the record stays as it is.
C16_CorruptIsNotFound ==
  \A r \in Requests :
    /\ (OnThread(r) /\ Corrupt(loc[r].old, loc[r].tid)) =>
         /\ loc[r].status = "ValueError"
         /\ Response(loc[r]) = 404
         /\ store = loc[r].old
    /\ (OnThread(r) /\ loc[r].old[loc[r].tid] = None) =>
         /\ loc[r].status = "ValueError"
         /\ Response(loc[r]) = 404

\* A message was posted to a thread whose record does not decode.
C16_Witness ==
  \E r \in Requests :
    /\ Done(r, "handle_student_action")
    /\ Corrupt(loc[r].old, loc[r].tid)
    /\ loc[r].old[loc[r].tid][1] \in CorruptRecords

\* C17: a call in which _save_thread raised ends with that exception and no
\* result, answered with 500; nothing was written after the failure, and the
\* store is what it was right before the failing save: the record of the
\* thread is the one stored before, and a thread that create_thread could not
\* save has no record.
C17_FailedSaveChangesNothing ==
  \A r \in Requests :
    (pc[r] = "done" /\ loc[r].status = "Exception") =>
      /\ store = loc[r].pre
      /\ store[loc[r].tid] = loc[r].pre[loc[r].tid]
      /\ loc[r].result = None
      /\ Response(loc[r]) = 500
      /\ loc[r].op = "start_conversation" => store[loc[r].tid] = None
      /\ loc[r].writes # <<>> =>
           store = SaveRecord(store, Last(loc[r].writes))

\* The save of the tutor reply failed after the student message was saved.
C17_Witness ==
  \E r \in Requests :
    /\ Done(r, "handle_student_action")
    /\ loc[r].status = "Exception"
    /\ Len(loc[r].writes) = 1
    /\ store[loc[r].tid] = Some(loc[r].writes[1])
    /\ IsStudent(Last(StoredLog(store, loc[r].tid)))

\* The record with a one-element content_ids list in place of its own.
WithContentId(rec) == [rec EXCEPT !.content_ids = json_dumps(<<"content123">>)]

\* C18: when get_thread is called on a stored record that decodes, the
\* thread it returns has the first element of the record's content_ids list
\* as content_id; when the list is empty and the rest of the record decodes,
\* it returns the thread with no content_id.
C18_FirstContentId ==
  \A r \in Requests :
    (/\ Done(r, "get_thread")
     /\ store[loc[r].tid] # None
     /\ IsJson(store[loc[r].tid][1].content_ids)
     /\ DecodeRecord(WithContentId(store[loc[r].tid][1]), Now) # None) =>
      LET content_ids == json_loads(store[loc[r].tid][1].content_ids)
      IN  /\ loc[r].result # None
          /\ loc[r].result[1].content_id =
               IF content_ids = <<>> THEN Null ELSE content_ids[1]

\* A finished handle_student_action call whose message has action regenerate.
HandledRegenerate(r) ==
  /\ DoneOk(r, "handle_student_action")
  /\ loc[r].arg[1].action = "regenerate"

\* The thread regenerate_tutor_response would generate from when called on
\* the thread t: t without a tutor message at its tail.
RegeneratedFrom(t) ==
  IF t.messages # <<>> /\ IsTutor(Last(t.messages))
  THEN [t EXCEPT !.messages = Front(@)]
  ELSE t

\* C19 as stated: the reply handle_student_action returns for a regenerate
\* message is a reply regeneration produces from the log as it was before the
\* message was appended.
C19_ReplyFromEarlierLog ==
  \A r \in Requests :
    HandledRegenerate(r) =>
      loc[r].result[1].content \in
        ResponseTexts(RegeneratedFrom(loc[r].loaded[1]), loc[r].content[1],
                      dspy_configured)

\* C19, amended: for a regenerate message the reply is generated from the
\* thread loaded after the message was saved. The log handed to
\* generate_response is the earlier log, nothing removed, with the message at
\* its tail; that message is the last StudentMessage, and with no model
\* backend the reply is the regenerate template of the fallback, whatever the
\* log held before.
C19_ReplyFromAppendedMessage ==
  \A r \in Requests :
    HandledRegenerate(r) =>
      LET f == loc[r]
          given == f.gen_in[1].messages
      IN  /\ given = Append(f.loaded[1].messages, f.arg[1])
          /\ StoredLog(f.gen_store, f.tid) = given
          /\ f.result = f.response
          /\ ~ dspy_configured =>
               f.result[1].content = RuleResponse(f.arg[1], f.content[1])
          /\ StoredLog(store, f.tid) = Append(given, f.result[1])

\* A regenerate message was handled on a thread whose log ended with the
\* tutor reply to a question, with no model backend.
C19_Witness ==
  \E r \in Requests :
    /\ HandledRegenerate(r)
    /\ ~ dspy_configured
    /\ Len(loc[r].loaded[1].messages) >= 2
    /\ IsTutor(Last(loc[r].loaded[1].messages))
    /\ LastStudent(loc[r].loaded[1].messages)[1].action = "question"

\* C20: with no model backend, a reply generated for a thread whose last
\* StudentMessage has action question contains the problem text and the
\* answer text of the thread's content.
C20_QuestionReplyHasProblemAndAnswer ==
  \A r \in Requests :
    (/\ ~ dspy_configured
     /\ loc[r].response # None
     /\ loc[r].gen_in # None
     /\ LastStudent(loc[r].gen_in[1].messages) # None
     /\ LastStudent(loc[r].gen_in[1].messages)[1].action = "question") =>
      /\ Contains(loc[r].response[1].content, loc[r].content[1].problem)
      /\ Contains(loc[r].response[1].content, loc[r].content[1].answer)
      /\ loc[r].content[1].content_id = loc[r].gen_in[1].content_id

\* A reply to a question on the second content item was generated by the
\* fallback and returned.
C20_Witness ==
  \E r \in Requests :
    /\ DoneOk(r, "handle_student_action")
    /\ ~ dspy_configured
    /\ loc[r].arg[1].action = "question"
    /\ loc[r].content[1] = Content456
    /\ loc[r].result = loc[r].response
    /\ Contains(loc[r].result[1].content, Content456.answer)

\* ------------------------------------------------------------- RedisClient
\* A client object as redis.from_url / redis.Redis build it; pinged records
\* whether a ping on it has succeeded.
NewClient(from_url) ==
  [from_url |-> from_url, decode_responses |-> TRUE, pinged |-> FALSE]

\* settings.REDIS_URL is set or not: it is read when the client is built.
RedisUrlSet == {TRUE, FALSE}

\* RedisClient.get_instance() up to its await: when the class attribute is
\* None it is set to a new client and the ping is awaited; otherwise the
\* attribute is returned as it is. Calls begin one after the other in time.
GetInstance(r) ==
  /\ Idle(r)
  /\ clock < MaxClock
  /\ clock' = clock + 1
  /\ IF instance = None
     THEN /\ \E url \in RedisUrlSet : instance' = Some(NewClient(url))
          /\ pc' = [pc EXCEPT ![r] = "ping"]
          /\ loc' = [loc EXCEPT ![r] = NewFrame("get_instance")]
     ELSE /\ UNCHANGED instance
          /\ pc' = [pc EXCEPT ![r] = "done"]
          /\ loc' = [loc EXCEPT ![r] = [NewFrame("get_instance") EXCEPT
                                          !.result = instance, !.status = "ok"]]
  /\ UNCHANGED <<store, nextId, dspy_configured, reachable>>

\* The ping returns: the client is handed out, or redis.ConnectionError is
\* turned into ConnectionError. The class attribute is not reset.
Ping(r) ==
  /\ pc[r] = "ping"
  /\ pc' = [pc EXCEPT ![r] = "done"]
  /\ IF reachable
     THEN /\ instance' = Some([instance[1] EXCEPT !.pinged = TRUE])
          /\ loc' = [loc EXCEPT ![r] = [@ EXCEPT !.result = instance',
                                                  !.status = "ok"]]
     ELSE /\ UNCHANGED instance
          /\ loc' = [loc EXCEPT ![r] = [@ EXCEPT !.status = "ConnectionError"]]
  /\ UNCHANGED <<store, clock, nextId, dspy_configured, reachable>>

\* The store becomes reachable.
StoreComesUp ==
  /\ ~ reachable
  /\ reachable' = TRUE
  /\ UNCHANGED <<store, clock, nextId, dspy_configured, pc, loc, instance>>

\* A process that has not asked for the client yet; the store is reachable or
\* not.
InitRedis ==
  /\ instance = None
  /\ reachable \in BOOLEAN
  /\ store = EmptyStore
  /\ clock = 0
  /\ nextId = 1
  /\ dspy_configured = FALSE
  /\ pc = [r \in Requests |-> "idle"]
  /\ loc = [r \in Requests |-> EmptyFrame]

\* get_instance awaits its ping, so calls of one event loop overlap there.
NextRedis ==
  \/ StoreComesUp
  \/ \E r \in Requests :
       \/ GetInstance(r)
       \/ Ping(r)
       \/ Return(r)

SpecRedis == InitRedis /\ [][NextRedis]_vars

\* C21: a get_instance call that returns hands out a client whose ping has
\* succeeded, and while the store is unreachable every finished call, the
\* first and the later ones, has failed with ConnectionError.
C21_OnlyPingedClients ==
  \A r \in Requests :
    Done(r, "get_instance") =>
      /\ loc[r].status = "ok" =>
           loc[r].result # None /\ loc[r].result[1].pinged
      /\ ~ reachable => loc[r].status = "ConnectionError"

\* C22: POST /chat/regenerate with a body without the key conversation_id is
\* answered with 400, and regenerate_tutor_response is not called: the store
\* is what it was.
C22_MissingIdIs400 ==
  \A r \in Requests :
    Done(r, "regenerate_response") =>
      /\ Response(loc[r]) = 400
      /\ store = loc[r].old
      /\ loc[r].writes = <<>>

\* The message mappings a stored record holds, as written.
StoredDicts(st, tid) == json_loads(st[tid][1].messages)

\* C23: every message of every stored log carries the id of the thread it is
\* stored in, and a finished add_message call has written only the record of
\* the thread its message names; a generated reply carries the id of the
\* thread it was generated for.
C23_MessagesCarryThreadId ==
  /\ \A tid \in ThreadIds :
       store[tid] # None =>
         \A i \in 1..Len(StoredDicts(store, tid)) :
           StoredDicts(store, tid)[i].conversation_id = tid
  /\ \A r \in Requests :
       /\ DoneOk(r, "add_message") =>
            \A tid \in ThreadIds :
              tid # loc[r].arg[1].conversation_id => store[tid] = loc[r].old[tid]
       /\ loc[r].response # None =>
            loc[r].response[1].conversation_id = loc[r].gen_in[1].id

\* The second thread holds a student message and the reply generated for it.
C23_Witness ==
  /\ store[2] # None
  /\ Len(StoredDicts(store, 2)) >= 2
  /\ \E r \in Requests :
       /\ DoneOk(r, "handle_student_action")
       /\ loc[r].tid = 2
       /\ loc[r].result[1].conversation_id = 2

\* ------------------------------------------------------------ driven calls
\* Threads driven through start_conversation, handle_student_action and
\* regenerate_tutor_response only, one call after the other.
NextChat ==
  \E r \in {1} :
    \/ \E i \in StartInputs : StartConversation(r, i.sid, i.tags)
    \/ CreateThread(r)
    \/ \E tid \in CallerIds, i \in StudentInputs : HandleStudentAction(r, tid, i)
    \/ HandleGet(r)
    \/ AddLoad(r)
    \/ AddSave(r)
    \/ \E tid \in CallerIds : RegenerateTutorResponse(r, tid)
    \/ RegenerateGet(r)
    \/ TrimSave(r)
    \/ Return(r)

SpecChat == Init /\ [][NextChat]_vars

\* No call is under way.
BetweenCalls == \A r \in Requests : pc[r] \in {"idle", "done"}

\* C24: between calls, the log of every stored thread is empty or ends with a
\* TutorMessage, holds no two adjacent TutorMessages, and has a TutorMessage
\* right after every StudentMessage.
C24_Alternation ==
  BetweenCalls =>
    \A tid \in ThreadIds :
      store[tid] # None =>
        LET log == StoredLog(store, tid)
        IN  /\ Exists(store, tid)
            /\ log = <<>> \/ IsTutor(Last(log))
            /\ \A i \in 1..(Len(log) - 1) :
                 /\ ~ (IsTutor(log[i]) /\ IsTutor(log[i + 1]))
                 /\ IsStudent(log[i]) => IsTutor(log[i + 1])

\* A regenerate_tutor_response call has replaced the reply to a student
\* message and finished.
C24_Witness ==
  \E r \in Requests :
    /\ DoneOk(r, "regenerate_tutor_response")
    /\ Len(loc[r].writes) = 2
    /\ Len(StoredLog(store, loc[r].tid)) >= 2
    /\ IsStudent(StoredLog(store, loc[r].tid)[Len(StoredLog(store, loc[r].tid)) - 1])

\* ------------------------------------------- concurrent calls on one thread
\* The thread that start_conversation("student123", ["MATH.ALG.1"]) followed
\* by handle_student_action with a question leaves in the store, with no
\* model backend: the question and the reply to it.
RaceQuestion ==
  StudentMessage(1, <<"How do I solve this equation?">>, "question", NowAt(2))

RaceAsked == Appended(NewThread(1, "student123", Content123, 0), RaceQuestion, NowAt(3))

RaceReply ==
  generate_response(RaceAsked, Content123, RuleResponse(RaceQuestion, Content123),
                    NowAt(4))

RaceThread == Appended(RaceAsked, RaceReply, NowAt(5))

\* Two workers on the store after those two calls.
InitRace ==
  /\ instance = None
  /\ reachable = TRUE
  /\ store = save_thread(EmptyStore, RaceThread)
  /\ clock = 6
  /\ nextId = 2
  /\ dspy_configured = FALSE
  /\ pc = [r \in Requests |-> "idle"]
  /\ loc = [r \in Requests |-> EmptyFrame]

RaceInputs == {i \in StudentInputs : i.action \in {"question", "chat"}}

NextRace ==
  \E r \in Requests :
    \/ \E i \in RaceInputs :
         AddMessage(r, StudentMessage(1, i.content, i.action, Now))
    \/ AddLoad(r)
    \/ AddSave(r)
    \/ RegenerateTutorResponse(r, 1)
    \/ RegenerateGet(r)
    \/ TrimSave(r)
    \/ Return(r)

SpecRace == InitRace /\ [][NextRace]_vars
\* Two finished regenerate_tutor_response calls on one thread that both
\* loaded the same log ending with a TutorMessage and both saved the shortened
\* log before either appended (r first, then q), q appending after r: the
\* store q trimmed held r's trim, and add_message(response) of q loaded the
\* log r's add_message had saved.
BothTrimmed(r, q) ==
  /\ r # q
  /\ Done(r, "regenerate_tutor_response") /\ Done(q, "regenerate_tutor_response")
  /\ loc[r].tid = loc[q].tid
  /\ Len(loc[r].writes) = 2 /\ Len(loc[q].writes) = 2
  /\ loc[r].old[loc[r].tid] = loc[q].old[loc[q].tid]
  /\ loc[q].trimmed[loc[q].tid] = Some(loc[r].writes[1])
  /\ BaseLog(q) = RecordLog(loc[r].writes[2])

\* C25: two overlapping regenerate_tutor_response calls on a thread whose log
\* ends with a TutorMessage, both loading the old log, both saving the trim and
\* then both appending, both succeed and leave the old log without its tail
\* followed by both new replies: two adjacent TutorMessages at the end and a
\* log one longer than before.
C25_BothAppend ==
  \A r \in Requests, q \in Requests :
    BothTrimmed(r, q) =>
      LET tid == loc[r].tid
          before == StoredLog(loc[r].old, tid)
          after == StoredLog(store, tid)
      IN  /\ loc[r].status = "ok" /\ loc[q].status = "ok"
          /\ IsTutor(Last(before))
          /\ loc[r].writes[1] = loc[q].writes[1]
          /\ RecordLog(loc[r].writes[1]) = Front(before)
          /\ after = Front(before) \o <<loc[r].result[1], loc[q].result[1]>>
          /\ IsTutor(after[Len(after)]) /\ IsTutor(after[Len(after) - 1])
          /\ Len(after) = Len(before) + 1

\* Two regenerate_tutor_response calls have both trimmed the same log and then
\* both appended, and both have returned.
C25_Witness ==
  \E r \in Requests, q \in Requests :
    /\ BothTrimmed(r, q)
    /\ Len(StoredLog(store, loc[r].tid)) = Len(StoredLog(loc[r].old, loc[r].tid)) + 1
\* An add_message of a student message (q) has completed between the load and
\* the trim-save of a regenerate_tutor_response (r) on the same thread: the
\* record r's trim-save replaced is the one q wrote.
AddedBeforeTrim(r, q) ==
  /\ r # q
  /\ loc[r].op = "regenerate_tutor_response"
  /\ loc[r].writes # <<>>
  /\ Done(q, "add_message")
  /\ loc[q].tid = loc[r].tid
  /\ IsStudent(loc[q].arg[1])
  /\ loc[q].writes # <<>>
  /\ loc[r].trimmed[loc[r].tid] = Some(loc[q].writes[1])

\* C26: when an add_message of a student message completes between the load
\* and the trim-save of a regenerate_tutor_response, the trim-save writes the
\* log the regenerate loaded without its tutor tail, the student message is
\* gone from the store, and neither call ends with an error.
C26_TrimErasesStudent ==
  \A r \in Requests, q \in Requests :
    AddedBeforeTrim(r, q) =>
      LET tid == loc[r].tid
          msg == loc[q].arg[1]
          stale == BaseLog(q)
          erased == StoredLog(loc[r].trimmed, tid)
          trim == RecordLog(loc[r].writes[1])
          after == StoredLog(store, tid)
      IN  /\ erased = Append(stale, msg)
          /\ IsTutor(Last(stale))
          /\ trim = Front(stale)
          /\ \A i \in 1..Len(after) : after[i] # msg
          /\ IsPrefix(trim, after)
          /\ loc[q].status = "ok" /\ loc[q].result # None
          /\ loc[r].status \in {"running", "ok"}
          /\ pc[r] = "done" => loc[r].status = "ok" /\ loc[r].result # None

\* A regenerate_tutor_response has saved its stale log over a student message
\* added after it loaded, and has returned its reply.
C26_Witness ==
  \E r \in Requests, q \in Requests :
    /\ AddedBeforeTrim(r, q)
    /\ DoneOk(r, "regenerate_tutor_response")
    /\ Len(StoredLog(store, loc[r].tid)) = Len(BaseLog(q))
\* The keys of the mock_content table in get_content.
KnownContentIds == {"content123", "content456", "content789"}

\* A finished handle_student_action or regenerate_tutor_response call on a
\* thread that existed when the call began and whose content_id is not a key
\* of the content table.
Unresolved(r) ==
  /\ pc[r] = "done"
  /\ loc[r].op \in {"handle_student_action", "regenerate_tutor_response"}
  /\ get_thread(loc[r].old, loc[r].tid, Now) # None
  /\ get_thread(loc[r].old, loc[r].tid, Now)[1].content_id \notin KnownContentIds

\* C27: handle_student_action and regenerate_tutor_response on a thread that
\* exists but whose content_id cannot be resolved fail with the not-found
\* error before any store write: the student message is not persisted, no
\* tutor message is removed, the stored thread is as it was.
C27_UnresolvedContentWritesNothing ==
  \A r \in Requests :
    Unresolved(r) =>
      /\ loc[r].status = "ValueError"
      /\ Response(loc[r]) = 404
      /\ loc[r].result = None
      /\ loc[r].writes = <<>>
      /\ store = loc[r].old

\* A message was posted to a thread with an unresolvable content id whose log
\* ends with a tutor message.
C27_Witness ==
  \E r \in Requests :
    /\ Unresolved(r)
    /\ loc[r].op = "handle_student_action"
    /\ loc[r].arg # None
    /\ store[loc[r].tid] = Some(UnknownContentRecord)
    /\ IsTutor(Last(StoredLog(store, loc[r].tid)))

\* C28: every thread start_conversation has created has a content_id that
\* get_content resolves, to the item the thread was created for (the two mock
\* tables hold the same items), so handle_student_action and
\* regenerate_tutor_response on such a thread never fail for missing content:
\* when they fail with ValueError, the thread itself was absent.
C28_CreatedContentResolves ==
  /\ \A tag \in MockDataTags :
       get_content(MockData(tag).content_id) = Some(MockData(tag))
  /\ \A r \in Requests :
       loc[r].op = "start_conversation" =>
         \A k \in 1..Len(loc[r].threads) :
           /\ loc[r].threads[k].content_id = loc[r].contents[k].content_id
           /\ get_content(loc[r].threads[k].content_id) = Some(loc[r].contents[k])
  /\ \A tid \in ThreadIds :
       store[tid] # None =>
         /\ json_loads(store[tid][1].content_ids)[1] \in KnownContentIds
         /\ get_content(json_loads(store[tid][1].content_ids)[1]) # None
  /\ \A r \in Requests :
       (/\ pc[r] = "done"
        /\ loc[r].op \in {"handle_student_action", "regenerate_tutor_response"}
        /\ loc[r].old[loc[r].tid] # None) =>
         loc[r].status = "ok"

\* handle_student_action has answered on a thread start_conversation created
\* for the last item of the tables.
C28_Witness ==
  \E r \in Requests :
    /\ DoneOk(r, "handle_student_action")
    /\ json_loads(store[loc[r].tid][1].content_ids)[1] = "content789"

\* C29: handle_student_action with action regenerate removes nothing: the
\* regenerate message is saved first, so regeneration finds a StudentMessage
\* at the tail and does not trim; the call makes exactly two store writes and
\* the stored log is the earlier log, every message in place, followed by the
\* regenerate message and the new TutorMessage.
C29_RegenerateActionGrowsByTwo ==
  \A r \in Requests :
    HandledRegenerate(r) =>
      LET f == loc[r]
          before == StoredLog(f.old, f.tid)
          after == StoredLog(store, f.tid)
      IN  /\ Len(f.writes) = 2
          /\ f.trimmed = EmptyStore
          /\ RecordLog(f.writes[1]) = Append(before, f.arg[1])
          /\ IsStudent(Last(RecordLog(f.writes[1])))
          /\ after = before \o <<f.arg[1], f.result[1]>>
          /\ Len(after) = Len(before) + 2
          /\ IsTutor(Last(after))
          /\ \A i \in 1..Len(before) : after[i] = before[i]

\* A regenerate message was handled on a thread whose log ended with a tutor
\* reply, which is still in the log.
C29_Witness ==
  \E r \in Requests :
    /\ HandledRegenerate(r)
    /\ StoredLog(loc[r].old, loc[r].tid) # <<>>
    /\ IsTutor(Last(StoredLog(loc[r].old, loc[r].tid)))
    /\ Len(StoredLog(store, loc[r].tid)) >= 4

\* start_conversation has raised in its loop after creating some threads.
FailedInLoop(r) ==
  /\ Done(r, "start_conversation")
  /\ loc[r].status = "Exception"

\* C30: when persisting the k-th thread of a start_conversation call fails,
\* the call raises (answered 500) and returns no thread list, and the k-1
\* threads it had persisted, none of which existed before the call, are each
\* still in the store as saved.
C30_NoRollback ==
  \A r \in Requests :
    FailedInLoop(r) =>
      LET f == loc[r]
      IN  /\ f.result = None
          /\ Response(f) = 500
          /\ Len(f.threads) < Len(f.contents)
          /\ Len(f.writes) = Len(f.threads)
          /\ \A k \in 1..Len(f.threads) :
               /\ f.old[f.threads[k].id] = None
               /\ f.writes[k] = ThreadRedis(f.threads[k])
               /\ store[f.threads[k].id] = Some(f.writes[k])
          /\ store[f.tid] = None

\* The second thread of a call failed to persist after the first was stored.
C30_Witness ==
  \E r \in Requests :
    /\ FailedInLoop(r)
    /\ Len(loc[r].threads) = 1
    /\ Len(loc[r].contents) = 2
    /\ store[loc[r].threads[1].id] # None
====
